---- MODULE Spec2Model ----
(***************************************************************************)
(* NTP client (ntp.py) and the application loop that uses it (demo.py).    *)
(*                                                                         *)
(* Numbers that do not fit a 32-bit signed integer (NTP seconds, 64-bit    *)
(* timestamp fields, Unix times before 1901) are held as two limbs         *)
(*     [hi |-> h, lo |-> l]   standing for   h * 65536 + l,  0 <= l < 65536 *)
(* with h any integer.  Byte strings are sequences over 0..255, Python     *)
(* strings are sequences of character codes.                               *)
(***************************************************************************)
EXTENDS Integers, Sequences, FiniteSets, TLC

VARIABLES
    runtime,        \* the Python implementation running the code
    client,         \* the fields of the (most recent) Client instance
    call,           \* codec: the last pack_request / unpack_response call
    sock,           \* query_time: the datagram socket s
    rx_log,         \* query_time: what recvfrom returned so far, in order
    elapsed,        \* query_time: seconds since the first recvfrom was entered
    waited,         \* query_time: seconds since the current recvfrom was entered
    app_pc,         \* demo: where run() is
    iter,           \* demo: loop iterations of run() completed
    show_dt,        \* demo: run()'s show_dt
    leds,           \* demo: the blue and green pins
    wlan_connected, \* demo: wlan.isconnected()
    offset,         \* demo: settings ntp.offset (hours)
    ntp_time,       \* demo: global ntp_time
    rtc,            \* demo: the reading of the real-time clock, which time() returns
    lcd,            \* demo: what update_time wrote to the display in this iteration
    sync,           \* demo: how query_time and the clock setting of this iteration ended
    synced          \* demo: the clock reading at which update_time last succeeded,
                    \*       and whether update_time has not been called since

vars == <<runtime, client, call, sock, rx_log, elapsed, waited,
          app_pc, iter, show_dt, leds, wlan_connected, offset, ntp_time, rtc,
          lcd, sync, synced>>

codec_vars == <<runtime, client, call>>

app_vars == <<sock, rx_log, elapsed, waited, app_pc, iter, show_dt,
              leds, wlan_connected, offset, ntp_time, rtc, lcd, sync, synced>>

-----------------------------------------------------------------------------
(* Two-limb integers *)

Limb == 2 ^ 16

Big(h, l) == [hi |-> h + (l \div Limb), lo |-> l % Limb]

BigOfInt(n) == Big(0, n)

BigAdd(a, b) == Big(a.hi + b.hi, a.lo + b.lo)

BigSub(a, b) == Big(a.hi - b.hi, a.lo - b.lo)

BigLT(a, b) == a.hi < b.hi \/ (a.hi = b.hi /\ a.lo < b.lo)

BigZero == Big(0, 0)

\* 0 <= v < 2^32
FitsU32(v) == v.hi >= 0 /\ v.hi < Limb

-----------------------------------------------------------------------------
(* Python integer operators on small integers *)

\* a shift that rounds toward zero, as a division in C would
ShrTrunc(v, n) == IF v >= 0 THEN v \div (2 ^ n) ELSE -((-v) \div (2 ^ n))

\* v >> n: arithmetic shift, rounds toward minus infinity
Shr(v, n) == v \div (2 ^ n)

\* v & (2^n - 1) on a two's complement integer of unbounded width
MaskLow(v, n) == v % (2 ^ n)

-----------------------------------------------------------------------------
(* struct: the format '!bbbbIIIQQQQ' *)

\* _EPOCH_DELTA = 2208988800 = 33706 * 65536 + 32384
EPOCH_DELTA == [hi |-> 33706, lo |-> 32384]

\* struct.calcsize('!bbbbIIIQQQQ'): no padding in network order
PACKET_SIZE == 1 + 1 + 1 + 1 + 4 + 4 + 4 + 8 + 8 + 8 + 8

\* 'b' on unpack: one byte as a signed 8-bit integer
UnpackB(byte) == IF byte >= 128 THEN byte - 256 ELSE byte

\* 'b' on pack, -128 <= v <= 127
PackB(v) == v % 256

\* 'I' / upper or lower half of 'Q': four big-endian bytes
PackU32(v) == <<v.hi \div 256, v.hi % 256, v.lo \div 256, v.lo % 256>>

UnpackU32(d, at) == [hi |-> d[at] * 256 + d[at + 1], lo |-> d[at + 2] * 256 + d[at + 3]]

\* A 64-bit value is the pair of its 32-bit halves; x << 32 has upper = x.
Shl32(x) == [upper |-> x, lower |-> BigZero]

Shr32(q) == q.upper

UnpackQ(d, at) == [upper |-> UnpackU32(d, at), lower |-> UnpackU32(d, at + 4)]

\* 'Q' accepts 0 <= q < 2^64
FitsQ(q) == FitsU32(q.upper) /\ FitsU32(q.lower)

\* bits 32..63 and 0..31 of q, whatever q's width
PackQ(q) == PackU32([hi |-> q.upper.hi % Limb, lo |-> q.upper.lo]) \o PackU32(q.lower)

-----------------------------------------------------------------------------
(* Python strings as sequences of character codes *)

RECURSIVE DecStr(_)
\* '%d' % n, n >= 0
DecStr(n) == IF n < 10 THEN <<48 + n>> ELSE Append(DecStr(n \div 10), 48 + (n % 10))

RECURSIVE RStripNul(_)
\* s.rstrip('\0')
RStripNul(s) ==
    IF s = <<>> THEN s
    ELSE IF s[Len(s)] = 0 THEN RStripNul(SubSeq(s, 1, Len(s) - 1))
    ELSE s

Str(s) == [type |-> "str", chars |-> s]

\* the integer 0 that __init__ stores in reference_id
IntZero == [type |-> "int", chars |-> <<>>]

INVALID == Str(<<73, 78, 86, 65, 76, 73, 68>>)

DOT == <<46>>

-----------------------------------------------------------------------------
(* Client *)

ClientInit ==
    [li |-> 0, vn |-> 3, mode |-> 3, stratum |-> 0, poll |-> 0, precision |-> 0,
     root_delay |-> BigZero, root_dispersion |-> BigZero, reference_id |-> IntZero,
     reference_timestamp |-> BigZero, origin_timestamp |-> BigZero,
     receive_timestamp |-> BigZero, transmit_timestamp |-> BigZero]

\* pack_request left vn and mode as an earlier response set them
PackRequestClient_Unforced(c) == c

\* self.vn = 3; self.mode = 3
PackRequestClient(c) == [c EXCEPT !.vn = 3, !.mode = 3]

\* (self.vn & 0b111) << 3 | self.mode & 0b111
RequestFirstValue(c) == MaskLow(c.vn, 3) * 8 + MaskLow(c.mode, 3)

\* origin timestamp stored without the shift, in the low half of the field
RequestOriginField_Low(T) == [upper |-> BigZero, lower |-> BigAdd(T, EPOCH_DELTA)]

\* (origin_timestamp + Client._EPOCH_DELTA) << 32
RequestOriginField(T) == Shl32(BigAdd(T, EPOCH_DELTA))

\* The values handed to struct.pack fit their formats.
PackFits(c, T) ==
    /\ RequestFirstValue(c) >= -128
    /\ RequestFirstValue(c) <= 127
    /\ FitsQ(RequestOriginField(T))

PackBytes(c, T) ==
    <<PackB(RequestFirstValue(c)), PackB(0), PackB(0), PackB(0)>>
        \o PackU32(BigZero) \o PackU32(BigZero) \o PackU32(BigZero)
        \o PackQ(Shl32(BigZero)) \o PackQ(RequestOriginField(T))
        \o PackQ(Shl32(BigZero)) \o PackQ(Shl32(BigZero))

\* struct.pack: CPython refuses a value out of range, MicroPython keeps its
\* low bits.
pack_request(c, T, rt) ==
    LET c1 == PackRequestClient(c) IN
    IF PackFits(c1, T) \/ rt = "micropython"
    THEN [kind |-> "ok", bytes |-> PackBytes(c1, T), client |-> c1]
    ELSE [kind |-> "struct.error", bytes |-> <<>>, client |-> c1]

\* struct.unpack's check of the buffer length: CPython wants exactly the
\* format's size and raises struct.error otherwise; MicroPython wants at
\* least that size, raises ValueError for less and reads the first 48 bytes
\* of more.
UnpackLengthError(d, rt) ==
    IF rt = "cpython"
    THEN (IF Len(d) = PACKET_SIZE THEN "ok" ELSE "struct.error")
    ELSE (IF Len(d) >= PACKET_SIZE THEN "ok" ELSE "ValueError")

\* the four bytes with every NUL kept
ReferenceTag_Raw(f) == Str(f)

\* ("%c%c%c%c" % fields).rstrip('\0')
ReferenceTag(f) == Str(RStripNul(f))

\* "%d.%d.%d.%d" % fields
ReferenceDotted(f) ==
    Str(DecStr(f[1]) \o DOT \o DecStr(f[2]) \o DOT \o DecStr(f[3]) \o DOT \o DecStr(f[4]))

\* fields = (v >> 24 & 0xFF, v >> 16 & 0xFF, v >> 8 & 0xFF, v & 0xFF)
ReferenceFields(v) ==
    <<MaskLow(Shr(v.hi, 8), 8), MaskLow(v.hi, 8), MaskLow(Shr(v.lo, 8), 8), MaskLow(v.lo, 8)>>

ReferenceId(stratum, f) ==
    IF 0 <= stratum /\ stratum <= 1 THEN ReferenceTag(f)
    ELSE IF 2 <= stratum /\ stratum <= 15 THEN ReferenceDotted(f)
    ELSE INVALID

\* (value >> 32) - Client._EPOCH_DELTA
Timestamp(q) == BigSub(Shr32(q), EPOCH_DELTA)

\* The fields unpack_response sets from a buffer struct.unpack accepted.
Decode(d) ==
    LET v0 == UnpackB(d[1]) IN
    [li |-> MaskLow(Shr(v0, 6), 2),
     vn |-> MaskLow(Shr(v0, 3), 3),
     mode |-> MaskLow(v0, 3),
     stratum |-> UnpackB(d[2]),
     poll |-> UnpackB(d[3]),
     precision |-> UnpackB(d[4]),
     root_delay |-> UnpackU32(d, 5),
     root_dispersion |-> UnpackU32(d, 9),
     reference_id |-> ReferenceId(UnpackB(d[2]), ReferenceFields(UnpackU32(d, 13))),
     reference_timestamp |-> Timestamp(UnpackQ(d, 17)),
     origin_timestamp |-> Timestamp(UnpackQ(d, 25)),
     receive_timestamp |-> Timestamp(UnpackQ(d, 33)),
     transmit_timestamp |-> Timestamp(UnpackQ(d, 41))]

unpack_response(c, d, rt) ==
    IF UnpackLengthError(d, rt) = "ok"
    THEN [kind |-> "ok", client |-> Decode(d)]
    ELSE [kind |-> UnpackLengthError(d, rt), client |-> c]

-----------------------------------------------------------------------------
(* Inputs of the codec: request timestamps and response buffers *)

U32_MAX == Big(Limb - 1, Limb - 1)

\* the largest T with T + 2208988800 < 2^32
T_MAX_VALID == BigSub(U32_MAX, EPOCH_DELTA)

T_1700000000 == Big(25939, 61696)

TSet == {BigZero, BigOfInt(1), T_1700000000, T_MAX_VALID,
         BigAdd(T_MAX_VALID, BigOfInt(1)), U32_MAX}

ValidT(T) == ~BigLT(T, BigZero) /\ FitsU32(BigAdd(T, EPOCH_DELTA))

\* A 48-byte packet as a server lays it out: first byte, stratum, reference
\* id bytes, whole seconds of the origin and transmit timestamps (the
\* transmit fraction is not zero).
MkPacket(b0, stratum, refid, origin, transmit) ==
    <<b0, stratum, 6, 233>> \o <<0, 0, 1, 2>> \o <<0, 0, 3, 4>> \o refid
        \o PackU32(BigZero) \o PackU32(BigZero)
        \o PackU32(origin) \o PackU32(BigZero)
        \o PackU32(BigZero) \o PackU32(BigZero)
        \o PackU32(transmit) \o <<128, 0, 0, 1>>

\* li = 0, vn = 3, mode = 4 (server)
REPLY_BYTE == 0 * 64 + 3 * 8 + 4

LOCL == <<76, 79, 67, 76>>

GPS == <<71, 80, 83, 0>>

IP_192_168_1_1 == <<192, 168, 1, 1>>

RefIdSamples == {LOCL, GPS, IP_192_168_1_1, <<0, 0, 0, 0>>, <<0, 65, 0, 0>>}

ByteSamples == {0, 76, 192}

StratumSamples == {0, 1, 2, 15, 16, 255}

SecondsSamples == {BigZero, EPOCH_DELTA, BigAdd(EPOCH_DELTA, T_1700000000), U32_MAX}

SamplePacket == MkPacket(REPLY_BYTE, 2, IP_192_168_1_1, EPOCH_DELTA,
                         BigAdd(EPOCH_DELTA, T_1700000000))

FirstByteData == {MkPacket(b, 2, IP_192_168_1_1, EPOCH_DELTA, EPOCH_DELTA) : b \in 0..255}

StratumData ==
    {MkPacket(REPLY_BYTE, s, f, EPOCH_DELTA, EPOCH_DELTA) : s \in 0..255, f \in RefIdSamples}
    \cup {MkPacket(REPLY_BYTE, s, <<a, b, c, d>>, EPOCH_DELTA, EPOCH_DELTA) :
             s \in StratumSamples, a \in ByteSamples, b \in ByteSamples,
             c \in ByteSamples, d \in ByteSamples}

SecondsData == {MkPacket(REPLY_BYTE, 1, LOCL, o, t) : o \in SecondsSamples, t \in SecondsSamples}

\* lengths other than 48, up to the 256 bytes recvfrom(256) can return
LengthSamples == {0, 1, 47, 49, 96, 256}

Resize(d, n) == [i \in 1..n |-> IF i <= Len(d) THEN d[i] ELSE 7]

LengthData == {Resize(SamplePacket, n) : n \in LengthSamples}

CodecData == FirstByteData \cup StratumData \cup SecondsData \cup LengthData

-----------------------------------------------------------------------------------------------------------------------------------------------------
(* The codec on its own: pack_request and unpack_response applied, in any   *)
(* order and any number of times, to a timestamp and a buffer drawn at the  *)
(* start.                                                                   *)

Runtimes == {"micropython", "cpython"}

\* Buffers tried together with every timestamp; every buffer is tried with
\* the default timestamp 0.
PriorStateData ==
    {MkPacket(b, 2, IP_192_168_1_1, EPOCH_DELTA, EPOCH_DELTA) : b \in {28, 36, 220, 0}}
    \cup {Resize(SamplePacket, n) : n \in {47, 49}}

CodecInputs == (TSet \X PriorStateData) \cup ({BigZero} \X CodecData)

AppIdle ==
    /\ sock = "none" /\ rx_log = <<>> /\ elapsed = 0 /\ waited = 0
    /\ app_pc = "off" /\ iter = 0 /\ show_dt = TRUE /\ leds = [blue |-> 0, green |-> 0]
    /\ wlan_connected = FALSE /\ offset = 0 /\ ntp_time = BigZero
    /\ rtc = BigZero /\ lcd = <<>>
    /\ sync = [kind |-> "none", ret |-> BigZero, clock |-> "none"]
    /\ synced = [fresh |-> FALSE, at |-> BigZero]

CodecInit ==
    /\ runtime \in Runtimes
    /\ client = ClientInit
    /\ \E in \in CodecInputs :
         call = [op |-> "none", T |-> in[1], buf |-> in[2], data |-> <<>>,
                 kind |-> "ok", out |-> <<>>, vn_before |-> 3, mode_before |-> 3]
    /\ AppIdle

\* pack_request(T)
PackRequest ==
    LET r == pack_request(client, call.T, runtime) IN
    /\ client' = r.client
    /\ call' = [call EXCEPT !.op = "pack", !.data = <<>>, !.kind = r.kind, !.out = r.bytes,
                            !.vn_before = client.vn, !.mode_before = client.mode]
    /\ UNCHANGED <<runtime, app_vars>>

\* unpack_response(buf)
UnpackResponse ==
    LET r == unpack_response(client, call.buf, runtime) IN
    /\ client' = r.client
    /\ call' = [call EXCEPT !.op = "unpack", !.data = call.buf, !.kind = r.kind, !.out = <<>>]
    /\ UNCHANGED <<runtime, app_vars>>

\* unpack_response(pack_request(T)): the bytes pack_request just returned
UnpackPacked ==
    /\ call.op = "pack"
    /\ call.kind = "ok"
    /\ LET r == unpack_response(client, call.out, runtime) IN
        /\ client' = r.client
        /\ call' = [call EXCEPT !.op = "roundtrip", !.data = call.out, !.kind = r.kind,
                                !.out = <<>>]
    /\ UNCHANGED <<runtime, app_vars>>

CodecNext ==
    \/ PackRequest
    \/ UnpackResponse
    \/ UnpackPacked

SpecCodec == CodecInit /\ [][CodecNext]_vars

-----------------------------------------------------------------------------------------------------------------------------------------------------
(* The application: run() of demo.py calling update_time, which calls       *)
(* Client.query_time.  Time is counted in seconds.                          *)

\* the timeout parameter of Client, in seconds (5 when left out, as demo.py
\* does; the behaviours are the same for any value of at least 2)
Timeout == 2

\* settings app.delay, 5000 ms
DelaySecs == 5

\* sleep_ms(1000) after a status message
StatusSecs == 1

\* settings ntp.interval, in seconds
Interval == 8

\* settings app.loops
Loops == 3

\* datagrams from other hosts that arrive during one query_time call
MaxStray == 1

\* settings ntp.offset, in hours
OffsetSet == {-1, 0, 1}

\* the RTC of the board starts at 2021-01-01 00:00:00 = 1609459200
RtcBoot == Big(24558, 26112)

DEST == "server"

Sources == {DEST, "other"}

\* what the server may answer: transmit time 1970-01-01, 2023-11-14, an
\* all-zero transmit timestamp, and replies of 47 and 49 bytes
ReplyData ==
    {MkPacket(REPLY_BYTE, 2, IP_192_168_1_1, EPOCH_DELTA, t) :
        t \in {EPOCH_DELTA, BigAdd(EPOCH_DELTA, T_1700000000), BigZero}}
    \cup {Resize(SamplePacket, n) : n \in {47, 49}}

\* what other hosts may send
StrayData == {MkPacket(REPLY_BYTE, 1, LOCL, EPOCH_DELTA, U32_MAX)}

DataFrom(src) == IF src = DEST THEN ReplyData ELSE StrayData

\* localtime(ntp_time) and rtc.datetime(...) either work or raise
ClockOutcomes == {"ok", "OSError", "OverflowError"}

NoSync == [kind |-> "none", ret |-> BigZero, clock |-> "none"]

IdleCall == [op |-> "none", T |-> BigZero, buf |-> <<>>, data |-> <<>>,
             kind |-> "ok", out |-> <<>>, vn_before |-> 3, mode_before |-> 3]

AppInit ==
    /\ runtime = "micropython"
    /\ client = ClientInit
    /\ call = IdleCall
    /\ sock = "none"
    /\ rx_log = <<>>
    /\ elapsed = 0
    /\ waited = 0
    /\ app_pc = "loop"
    /\ iter = 0
    /\ show_dt = TRUE
    /\ leds = [blue |-> 0, green |-> 1]
    /\ wlan_connected = FALSE
    /\ offset \in OffsetSet
    /\ ntp_time = BigZero
    /\ rtc = RtcBoot
    /\ lcd = <<>>
    /\ sync = NoSync
    /\ synced = [fresh |-> FALSE, at |-> BigZero]

\* the clock reading n seconds after reading r
Later(r, n) == BigAdd(r, BigOfInt(n))

\* ntp_time == 0 or time() - ntp_time > interval, time() returning t
NeedSync(t) ==
    ntp_time = BigZero \/ BigLT(BigOfInt(Interval), BigSub(t, ntp_time))

\* if not wlan.isconnected(): connect_to_wifi()  -- returns once connected,
\* after showing 'Connected' for a second
AfterConnect == IF wlan_connected THEN rtc ELSE Later(rtc, StatusSecs)

\* a handler that lets a data error through
Catches_OSErrorOnly(e) == e = "OSError"

\* except Exception as e
Catches(e) == TRUE

\* isinstance(e, OSError)
StatusFor(e) == IF e = "OSError" THEN "Timeout" ELSE "Bad data"

\* the except block of update_time
Handled(e, shown, nt) ==
    [ntp |-> nt, set_rtc |-> FALSE, caught |-> Catches(e),
     lcd |-> IF Catches(e) THEN shown \o <<"No time", StatusFor(e)>> ELSE shown]

\* update_time from the return of query_time on: q is how query_time ended,
\* clock how localtime and rtc.datetime end
AfterQuery(q, clock) ==
    IF q.kind = "ok"
    THEN LET nt == BigAdd(q.ret, BigOfInt(offset * 3600)) IN
         IF clock = "ok"
         THEN [ntp |-> nt, set_rtc |-> TRUE, caught |-> TRUE,
               lcd |-> <<"Getting time...", "Got time">>]
         ELSE Handled(clock, <<"Getting time...", "Got time">>, nt)
    ELSE Handled(q.kind, <<"Getting time...">>, ntp_time)

\* dt = localtime(ntp_time); rtc.datetime((dt[0], ...)): the reading the
\* clock is set to, nt being ntp_time and ret what query_time returned
RtcValue(nt, ret) == nt

\* update_time from the return of query_time, when the clock reads t, to
\* its own return to run(); or the exception leaves run()
FinishUpdate(t, q, clock) ==
    LET r == AfterQuery(q, clock)
        t1 == IF r.set_rtc THEN RtcValue(r.ntp, q.ret) ELSE t
    IN
    /\ synced' = IF r.set_rtc THEN [fresh |-> TRUE, at |-> t1]
                 ELSE [synced EXCEPT !.fresh = FALSE]
    /\ ntp_time' = r.ntp
    /\ rtc' = IF r.caught THEN Later(t1, StatusSecs) ELSE t1
    /\ lcd' = r.lcd
    /\ sync' = [kind |-> q.kind, ret |-> q.ret,
                clock |-> IF q.kind = "ok" THEN clock ELSE "none"]
    /\ app_pc' = IF r.caught THEN "display" ELSE "crashed"
    /\ elapsed' = 0
    /\ waited' = 0

Failed(kind) == [kind |-> kind, ret |-> BigZero]

\* run(): an iteration that does not call update_time
RunSkipSync ==
    /\ app_pc = "loop"
    /\ iter < Loops
    /\ ~NeedSync(AfterConnect)
    /\ wlan_connected' = TRUE
    /\ rtc' = AfterConnect
    /\ lcd' = <<>>
    /\ sync' = NoSync
    /\ app_pc' = "display"
    /\ UNCHANGED <<codec_vars, sock, rx_log, elapsed, waited, iter, show_dt, leds,
                   offset, ntp_time, synced>>

\* run() calls update_time and query_time raises OSError before it waits:
\* in getaddrinfo, in socket(), or in sendto
RunSyncFailsEarly(stage) ==
    /\ app_pc = "loop"
    /\ iter < Loops
    /\ NeedSync(AfterConnect)
    /\ wlan_connected' = TRUE
    /\ sock' = IF stage = "sendto" THEN "open" ELSE "none"
    /\ client' = IF stage = "sendto"
                 THEN pack_request(ClientInit, BigZero, runtime).client
                 ELSE ClientInit
    /\ rx_log' = <<>>
    /\ FinishUpdate(AfterConnect, Failed("OSError"), "none")
    /\ UNCHANGED <<runtime, call, iter, show_dt, leds, offset>>

\* run() calls update_time, query_time sends the request and enters recvfrom
RunSyncSend ==
    /\ app_pc = "loop"
    /\ iter < Loops
    /\ NeedSync(AfterConnect)
    /\ wlan_connected' = TRUE
    /\ sock' = "open"
    /\ client' = pack_request(ClientInit, BigZero, runtime).client
    /\ rx_log' = <<>>
    /\ rtc' = AfterConnect
    /\ elapsed' = 0
    /\ waited' = 0
    /\ lcd' = <<"Getting time...">>
    /\ sync' = NoSync
    /\ synced' = [synced EXCEPT !.fresh = FALSE]
    /\ app_pc' = "recv"
    /\ UNCHANGED <<runtime, call, iter, show_dt, leds, offset, ntp_time>>

\* a second passes inside recvfrom
RecvTick ==
    /\ app_pc = "recv"
    /\ waited + 1 < Timeout
    /\ waited' = waited + 1
    /\ elapsed' = elapsed + 1
    /\ rtc' = Later(rtc, 1)
    /\ UNCHANGED <<codec_vars, sock, rx_log, app_pc, iter, show_dt, leds, wlan_connected,
                   offset, ntp_time, lcd, sync, synced>>

\* recvfrom has waited `timeout` seconds and raises OSError (ETIMEDOUT)
RecvTimeout ==
    /\ app_pc = "recv"
    /\ waited + 1 = Timeout
    /\ FinishUpdate(Later(rtc, 1), Failed("OSError"), "none")
    /\ UNCHANGED <<codec_vars, sock, rx_log, iter, show_dt, leds, wlan_connected, offset>>

\* a datagram from any address ends the wait
RecvMatches_Any(src) == TRUE

\* if src_addr == dest_addr: break
RecvMatches(src) == src = DEST

Strays == Len(rx_log)

\* recvfrom returns a datagram: one from another address is dropped and
\* recvfrom is entered again; one from dest_addr ends the loop, the socket is
\* closed, the data unpacked and update_time goes on with the result
\* (clock: how setting the clock ends, when it comes to that)
RecvDatagram(src, d, clock) ==
    /\ app_pc = "recv"
    /\ src # DEST => Strays < MaxStray
    /\ clock # "ok" => (RecvMatches(src) /\ unpack_response(client, d, runtime).kind = "ok")
    /\ rx_log' = Append(rx_log, [src |-> src, data |-> d])
    /\ IF RecvMatches(src)
       THEN LET r == unpack_response(client, d, runtime) IN
            /\ sock' = "closed"
            /\ client' = r.client
            /\ FinishUpdate(rtc,
                            IF r.kind = "ok"
                            THEN [kind |-> "ok", ret |-> r.client.transmit_timestamp]
                            ELSE Failed(r.kind),
                            clock)
       ELSE /\ waited' = 0
            /\ UNCHANGED <<client, sock, elapsed, app_pc, ntp_time, rtc, lcd, sync, synced>>
    /\ UNCHANGED <<runtime, call, iter, show_dt, leds, wlan_connected, offset>>

\* run() after update_time: show date and time or the measurement, flip
\* show_dt, toggle the pins, sleep.  The display is cleared, and what
\* update_time and query_time held in local variables (the Client, the
\* socket object, the datagrams, the outcome) is gone.
ShowAndSleep ==
    /\ app_pc = "display"
    /\ show_dt' = ~show_dt
    /\ leds' = [blue |-> 1 - leds.blue, green |-> 1 - leds.green]
    /\ rtc' = Later(rtc, DelaySecs)
    /\ iter' = iter + 1
    /\ app_pc' = "loop"
    /\ lcd' = <<>>
    /\ client' = ClientInit
    /\ rx_log' = <<>>
    /\ sync' = NoSync
    /\ sock' = "none"
    /\ UNCHANGED <<runtime, call, elapsed, waited, wlan_connected, offset, ntp_time,
                   synced>>

\* sht31.take_measurement() raises (CRC mismatch, bus error): nothing in
\* run() catches it
MeasurementFails ==
    /\ app_pc = "display"
    /\ ~show_dt
    /\ app_pc' = "crashed"
    /\ UNCHANGED <<codec_vars, sock, rx_log, elapsed, waited, iter, show_dt, leds,
                   wlan_connected, offset, ntp_time, rtc, lcd, sync, synced>>

\* the loop is over: teardown()
Teardown ==
    /\ app_pc = "loop"
    /\ iter = Loops
    /\ app_pc' = "done"
    /\ leds' = [blue |-> 0, green |-> 0]
    /\ wlan_connected' = FALSE
    /\ UNCHANGED <<codec_vars, sock, rx_log, elapsed, waited, iter, show_dt, offset,
                   ntp_time, rtc, lcd, sync, synced>>

Next ==
    \/ RunSkipSync
    \/ \E stage \in {"getaddrinfo", "socket", "sendto"} : RunSyncFailsEarly(stage)
    \/ RunSyncSend
    \/ RecvTick
    \/ RecvTimeout
    \/ \E src \in Sources : \E d \in DataFrom(src) : \E clock \in ClockOutcomes :
          RecvDatagram(src, d, clock)
    \/ ShowAndSleep
    \/ MeasurementFails
    \/ Teardown

Init == AppInit

Spec == Init /\ [][Next]_vars

-----------------------------------------------------------------------------
(* Properties of query_time and update_time *)

QueryErrors == {"OSError", "ValueError", "struct.error"}

\* query_time is not running: it has not been called, or it has exited
QueryExited == app_pc # "recv"

\* C1: every call of query_time that opened its socket has closed it by the
\* time the call exits, on every exit path.
C1_SocketClosedOnExit == QueryExited => sock # "open"

\* C2: when no datagram from the destination arrives within `timeout`
\* seconds of the start of the wait, query_time has ended (with a timeout
\* error) by then, also when datagrams from other addresses keep arriving:
\* it is never still waiting `timeout` seconds after the wait began.
C2_WaitEndsByDeadline == app_pc = "recv" => elapsed < Timeout

\* whole seconds of the transmit timestamp on the wire: bytes 40..43
WireTransmitSeconds(d) == [hi |-> d[41] * 256 + d[42], lo |-> d[43] * 256 + d[44]]

\* C3: a value query_time returns is the high 32 bits of the transmit
\* timestamp, minus 2208988800, of the first datagram received from the
\* destination address; datagrams from other addresses received before it
\* are dropped without ending the wait and leave no trace in the value or
\* the decoded fields; no offset is added.
C3_ReturnedValue ==
    /\ app_pc = "recv" => \A j \in 1..Len(rx_log) : rx_log[j].src # DEST
    /\ sync.kind = "ok" =>
          LET n == Len(rx_log) IN
          /\ n >= 1
          /\ rx_log[n].src = DEST
          /\ \A j \in 1..(n - 1) : rx_log[j].src # DEST
          /\ Len(rx_log[n].data) >= 48
          /\ sync.ret = BigSub(WireTransmitSeconds(rx_log[n].data), EPOCH_DELTA)
          /\ SubSeq(rx_log[n].data, 41, 44) = <<131, 170, 126, 128>> => sync.ret = BigZero
          /\ client.transmit_timestamp = sync.ret
          /\ client.stratum = UnpackB(rx_log[n].data[2])

\* a reply carrying 2208988800 + 1700000000 arrives after a datagram from
\* another address, and 1700000000 is returned
C3_Witness ==
    /\ sync.kind = "ok"
    /\ Len(rx_log) = 2
    /\ rx_log[1].src # DEST
    /\ rx_log[2].src = DEST
    /\ sync.ret = [hi |-> 25939, lo |-> 61696]

Shown(text) == \E i \in 1..Len(lcd) : lcd[i] = text

\* C9: after update_time, "Timeout" is on the display exactly when
\* query_time raised OSError, and "Bad data" exactly when the response
\* could not be decoded; a failure of another kind is not shown as
\* "Bad data".
C9_StatusTellsErrorKind ==
    app_pc = "display" =>
        /\ Shown("Timeout") <=> sync.kind = "OSError"
        /\ Shown("Bad data") <=> sync.kind \in {"ValueError", "struct.error"}

\* the clock only ran on from reading r to reading r1: it was not set
RanOn(r, r1) == \E k \in 0..(2 * StatusSecs + 1) : r1 = Later(r, k)

\* C10: when query_time fails inside update_time, with either kind of
\* error, update_time returns to run() without raising, ntp_time keeps its
\* value, the real-time clock is not set, and run() is where it goes on
\* with the iteration and the following ones.
C10_SyncFailureNonFatal ==
    [][(sync.kind = "none" /\ sync'.kind \in QueryErrors) =>
          /\ app_pc' = "display"
          /\ ntp_time' = ntp_time
          /\ RanOn(rtc, rtc')
          /\ iter' = iter
          /\ show_dt' = show_dt]_vars

\* a resynchronisation fails on a bad reply and the time known from the
\* first one is still there
C10_Witness ==
    /\ app_pc = "display"
    /\ sync.kind = "ValueError"
    /\ iter = 2
    /\ ntp_time = [hi |-> 25939, lo |-> 61696]

\* update_time has been called in the iteration under way
UpdateCalled == app_pc = "recv" \/ sync.kind # "none"

\* run() decides at line 117, with the clock reading AfterConnect, whether
\* to call update_time, and update_time has not been called since it last
\* succeeded
DecidesAfterSuccess ==
    /\ app_pc = "loop"
    /\ iter < Loops
    /\ synced.fresh
    /\ app_pc' # "loop"

\* the clock reads more than `interval` seconds past the reading at which
\* update_time succeeded
IntervalOver == BigLT(Later(synced.at, Interval), AfterConnect)

\* C11: for every offset, after update_time succeeds at clock reading t,
\* run() does not call it again in an iteration whose clock reading is at
\* most t + interval, and calls it in the first iteration whose reading
\* exceeds t + interval.
C11_ResyncRespectsInterval ==
    [][DecidesAfterSuccess => (UpdateCalled' <=> IntervalOver)]_vars

\* What run() does instead (not the statement of C11): the interval decides
\* whenever the time stored in ntp_time, the server's time plus
\* offset * 3600, is not 0; a stored 0 reads as "no time yet" at line 117
\* and update_time is called in every iteration.
StoredZeroResyncsAlways ==
    [][DecidesAfterSuccess =>
          /\ ntp_time # BigZero => (UpdateCalled' <=> IntervalOver)
          /\ ntp_time = BigZero => UpdateCalled']_vars

\* with offset -1, update_time succeeded at 1700000000 - 3600, the next
\* iteration left it alone, and the third, 11 seconds on, called it again
ResyncAfterInterval ==
    /\ offset = -1
    /\ iter = 2
    /\ app_pc = "recv"
    /\ synced.at = [hi |-> 25939, lo |-> 58096]
    /\ ntp_time = synced.at
    /\ rtc = Later(synced.at, 2 * DelaySecs + StatusSecs)

-----------------------------------------------------------------------------
(* Properties of the codec *)

Unpacked == call.op \in {"unpack", "roundtrip"}

\* C4: unpack_response of a byte sequence whose length is not 48 fails with
\* ValueError: it neither succeeds on a prefix nor fails with another kind
\* of error.
C4_WrongLengthIsValueError ==
    (Unpacked /\ Len(call.data) # 48) => call.kind = "ValueError"

\* C5: for every valid origin timestamp T and every prior state of the
\* instance, pack_request returns 48 bytes: byte 0 is 0x1B, bytes 1-11 are
\* zero, every other field but the origin timestamp is zero, and the origin
\* field holds T + 2208988800 in its high 32 bits and zero in its low 32.
C5_PackLayout ==
    (call.op = "pack" /\ ValidT(call.T)) =>
        /\ call.kind = "ok"
        /\ Len(call.out) = 48
        /\ call.out[1] = 27
        /\ \A i \in (2..24) \cup (29..48) : call.out[i] = 0
        /\ call.out[25] * 256 + call.out[26] = BigAdd(call.T, EPOCH_DELTA).hi
        /\ call.out[27] * 256 + call.out[28] = BigAdd(call.T, EPOCH_DELTA).lo

\* a valid non-zero timestamp packed by an instance whose mode an earlier
\* response had changed
C5_Witness ==
    /\ call.op = "pack" /\ call.kind = "ok"
    /\ call.T = T_1700000000
    /\ call.mode_before = 4
    /\ call.out[1] = 27

\* C6: for every T with 0 <= T and T + 2208988800 < 2^32, unpack_response
\* of pack_request(T) succeeds and leaves origin_timestamp = T, li = 0,
\* version = 3 and mode = 3.
C6_RoundTrip ==
    (call.op = "roundtrip" /\ ValidT(call.T)) =>
        /\ call.kind = "ok"
        /\ client.origin_timestamp = call.T
        /\ client.li = 0 /\ client.vn = 3 /\ client.mode = 3

C6_Witness ==
    /\ call.op = "roundtrip" /\ call.kind = "ok"
    /\ call.T = T_MAX_VALID
    /\ client.origin_timestamp = T_MAX_VALID

\* C12: for every origin timestamp T with 0 <= T < 2^32, the value
\* (T + 2208988800) << 32 written to the origin-timestamp field is less than
\* 2^64, and pack_request succeeds with 48 bytes whose origin field holds
\* that value, neither failing nor wrapping.
C12_PackNeverOverflows ==
    (call.op = "pack" /\ ~BigLT(call.T, BigZero) /\ FitsU32(call.T)) =>
        /\ FitsQ(RequestOriginField(call.T))
        /\ call.kind = "ok"
        /\ Len(call.out) = PACKET_SIZE
        /\ UnpackQ(call.out, 25) = RequestOriginField(call.T)

\* What pack_request does instead (not the statement of C12): the value
\* fits 64 bits exactly when T <= 2^32 - 1 - 2208988800 = 2085978495; past
\* that CPython's struct.pack refuses it and MicroPython's, as modelled,
\* writes it without its bits 64 and up.
OriginFieldFitsUpTo2085978495 ==
    call.op = "pack" =>
        /\ FitsQ(RequestOriginField(call.T)) <=> ~BigLT(T_MAX_VALID, call.T)
        /\ T_MAX_VALID = [hi |-> 31829, lo |-> 33151]
        /\ BigLT(T_MAX_VALID, call.T) =>
              \/ runtime = "cpython" /\ call.kind = "struct.error"
              \/ /\ runtime = "micropython" /\ call.kind = "ok"
                 /\ UnpackQ(call.out, 25) # RequestOriginField(call.T)

\* C7: for every first byte 0..255 of a 48-byte response, leap_indicator is
\* bits 6-7, version bits 3-5 and mode bits 0-2 of the byte as an unsigned
\* value.
C7_HeaderBits ==
    (call.op = "unpack" /\ Len(call.data) = 48) =>
        /\ call.kind = "ok"
        /\ client.li = call.data[1] \div 64
        /\ client.vn = (call.data[1] \div 8) % 8
        /\ client.mode = call.data[1] % 8

\* 0xDC gives li = 3, version = 3, mode = 4
C7_Witness ==
    /\ call.op = "unpack" /\ Len(call.data) = 48
    /\ call.data[1] = 220
    /\ client.li = 3 /\ client.vn = 3 /\ client.mode = 4

\* Reading a dotted string back: its parts between dots, and their values.
RECURSIVE SplitDots(_)
SplitDots(s) ==
    IF \A i \in 1..Len(s) : s[i] # 46 THEN <<s>>
    ELSE LET k == CHOOSE i \in 1..Len(s) : s[i] = 46 /\ \A j \in 1..(i - 1) : s[j] # 46
         IN <<SubSeq(s, 1, k - 1)>> \o SplitDots(SubSeq(s, k + 1, Len(s)))

RECURSIVE DigitsValue(_)
DigitsValue(s) ==
    IF s = <<>> THEN 0 ELSE DigitsValue(SubSeq(s, 1, Len(s) - 1)) * 10 + (s[Len(s)] - 48)

IsDecimal(s) ==
    /\ Len(s) >= 1
    /\ \A i \in 1..Len(s) : s[i] \in 48..57
    /\ Len(s) > 1 => s[1] # 48

\* chars is "a.b.c.d" for the four octets f
IsDottedOf(chars, f) ==
    LET parts == SplitDots(chars) IN
    /\ Len(parts) = 4
    /\ \A i \in 1..4 : IsDecimal(parts[i]) /\ DigitsValue(parts[i]) = f[i]

\* chars is f without its trailing NUL characters
IsStrippedOf(chars, f) ==
    /\ Len(chars) <= 4
    /\ \A i \in 1..Len(chars) : chars[i] = f[i]
    /\ \A i \in (Len(chars) + 1)..4 : f[i] = 0
    /\ Len(chars) > 0 => chars[Len(chars)] # 0

WireRefId == SubSeq(call.data, 13, 16)

\* C8 as stated: reference_id is the four reference-id bytes as a
\* 4-character tag for stratum 0-1, the dotted octets for stratum 2-15, and
\* the invalid marker for stratum 16-255.
C8_Original ==
    (call.op = "unpack" /\ Len(call.data) = 48) =>
        /\ client.reference_id.type = "str"
        /\ call.data[2] \in 0..1 => client.reference_id.chars = WireRefId
        /\ call.data[2] \in 2..15 => IsDottedOf(client.reference_id.chars, WireRefId)
        /\ call.data[2] \in 16..255 => client.reference_id = INVALID

\* C8 amended: for stratum 0-1 the tag is the four bytes in wire order with
\* the trailing NUL bytes removed (four characters only when the last byte
\* is not zero); the other two cases as stated.
C8_ReferenceId ==
    (call.op = "unpack" /\ Len(call.data) = 48) =>
        /\ client.reference_id.type = "str"
        /\ call.data[2] \in 0..1 => IsStrippedOf(client.reference_id.chars, WireRefId)
        /\ call.data[2] \in 2..15 => IsDottedOf(client.reference_id.chars, WireRefId)
        /\ call.data[2] \in 16..255 => client.reference_id = INVALID

\* stratum 1 with 'G','P','S',NUL gives "GPS"
C8_Witness ==
    /\ call.op = "unpack" /\ Len(call.data) = 48
    /\ call.data[2] = 1
    /\ WireRefId = GPS
    /\ client.reference_id = Str(<<71, 80, 83>>)

====
